---- MODULE Spec2Model ----
(***************************************************************************)
(* Model of the crypto-websockets collectors.                              *)
(*                                                                         *)
(*   - the REST poller   src/collectors/rest_api/collector.py              *)
(*   - the feed client   src/collectors/websocket/coinbase_websocket.py    *)
(*                                                                         *)
(* The two programs are separate processes that share no state; SpecPoll   *)
(* runs the poller, SpecFeed runs the feed client.                         *)
(***************************************************************************)
EXTENDS Integers, Sequences, FiniteSets, TLC

VARIABLES
    \* ---- collector.py ----
    running,        \* collector.py global `running`
    stats,          \* collector.py global `stats` (without start_time)
    pc,             \* position of main() / collect_all_prices()
    idx,            \* index into config.SYMBOLS of the for loop (0 outside a cycle)
    data,           \* the value fetch_quote returned for the current symbol
    quotes,         \* rows of the sink's table `quotes`, in insertion order
    trades,         \* rows of the sink's table `trades`, in insertion order
    report,         \* what print_stats printed last
    cycle_log,      \* per symbol of the current cycle: what fetch and save did
    stopped_at,     \* where main() was when signal_handler ran ("none": it did not)
    delivered,      \* per trade identifier: how often it was delivered
    faults,         \* how many faults the environment has injected so far
    frames_left,    \* how many more frames the feed will deliver
    \* ---- coinbase_websocket.py ----
    ws_running,     \* coinbase_websocket.py global `running`
    ws,             \* self.ws
    fpc,            \* position of CoinbaseWebSocket.run()
    message_count,  \* self.message_count
    message_types,  \* self.message_types (a missing key reads as 0)
    last_prices,    \* self.last_prices
    console,        \* the last line handle_message and its handlers printed
    calls,          \* how often connect / send / recv / close were called, and succeeded
    loop_exit,      \* why receive_messages was left
    recv_after_stop,\* receive outcomes completed after the flag was cleared
    final_stats     \* whether run() printed the final statistics

pollVars == << running, stats, pc, idx, data, quotes, trades, report, cycle_log,
              stopped_at >>
clientVars == << message_count, message_types, last_prices, console >>
feedVars == << ws_running, ws, fpc, clientVars, calls, loop_exit, recv_after_stop,
               final_stats >>
envVars == << delivered, faults, frames_left >>
vars == << pollVars, feedVars, envVars >>

(***************************************************************************)
(* Bounds of the model.                                                    *)
(***************************************************************************)
MaxCollections == 2    \* collection cycles per run
MaxDelivered == 2      \* deliveries of a trade (payloads with last_trade, match frames) per run
MaxFaults == 2         \* failed calls and malformed inputs per run
MaxMessages == 2       \* frames the feed delivers per run
MaxTick == 2           \* largest bid/ask of a ticker frame, in ticks
MaxTickerCount == 10   \* largest ticker count the handler is started from

(***************************************************************************)
(* config.py                                                               *)
(***************************************************************************)
SYMBOLS ==
    << [symbol |-> "BTC", id |-> "COINBASE_SPOT_BTC_USD"],
       [symbol |-> "ETH", id |-> "COINBASE_SPOT_ETH_USD"],
       [symbol |-> "SOL", id |-> "COINBASE_SPOT_SOL_USD"] >>

SymbolIdx == 1..Len(SYMBOLS)

TradeIds == {"t1", "t2"}

(***************************************************************************)
(* collector.py : fetch_quote                                              *)
(***************************************************************************)
\* The `result` object of a response.  shape: "ok" has every quote key and
\* numeric prices; "missing_field" lacks a quote key; "non_numeric" has
\* prices that are not numbers.  last_trade: absent, a trade lacking a
\* required key ("malformed"), or a trade with that uuid.
Payloads ==
    [ shape : {"ok", "missing_field", "non_numeric"},
      last_trade : {"absent", "malformed"} \cup TradeIds ]

None == [shape |-> "none", last_trade |-> "absent"]

\* What the endpoint can answer: requests.post raises (timeout, network),
\* the body carries an error envelope, the body has no result, or a result.
Responses ==
    [kind : {"timeout", "error_envelope", "no_result"}, result : {None}]
        \cup [kind : {"result"}, result : Payloads]

fetch_quote(resp) ==
    CASE resp.kind = "timeout"        -> None          \* except Exception: return None
      [] resp.kind = "error_envelope" -> None          \* raise Exception(...) caught
      [] resp.kind = "no_result"      -> None          \* data.get('result') is None
      [] OTHER                        -> resp.result

FetchFailed(resp) == resp.kind \in {"timeout", "error_envelope"}

Truthy(d) == d # None

(***************************************************************************)
(* The persistence sink.  The store is no code of this repository: its     *)
(* insert contract is the one the specification states (quotes is          *)
(* append-only; trades is unique on the trade identifier; an insert        *)
(* returns success, a duplicate-key failure or a generic failure).         *)
(***************************************************************************)
SinkOutcomes == {"ok", "error"}

HasTrade(t, uuid) == \E i \in 1..Len(t) : t[i].trade_uuid = uuid

\* The outcome of supabase.table('trades').insert(row).execute()
trades_insert_result(t, uuid, out) ==
    IF HasTrade(t, uuid)
        THEN (IF out = "ok" THEN "duplicate" ELSE "error")
        ELSE out

trades_insert(t, row, out) ==
    IF trades_insert_result(t, row.trade_uuid, out) = "ok" THEN Append(t, row) ELSE t

(***************************************************************************)
(* collector.py : save_quote                                               *)
(***************************************************************************)
\* lines 66-81: build quote_data (KeyError on a missing key), insert it.
quote_insert_raises(d, q_out) == d.shape = "missing_field" \/ q_out = "error"

\* What the sink and the payload made of lines 66-81.
quote_outcome(d, q_out) ==
    CASE d.shape = "missing_field" -> "no_row"     \* KeyError before the insert
      [] q_out = "error"           -> "error"
      [] OTHER                     -> "ok"

\* What the sink and the payload made of lines 84-95.
trade_outcome(t, d, t_out) ==
    CASE d.last_trade = "absent"    -> "none"
      [] d.last_trade = "malformed" -> "malformed" \* KeyError before the insert
      [] OTHER                      -> trades_insert_result(t, d.last_trade, t_out)

\* lines 96-100: every exception of the trades insert is swallowed; the
\* text 'duplicate' only decides whether a warning is printed.
trade_insert_except(res) == "continue"

\* lines 84-100: "raise" when building trade_data fails (KeyError reaches
\* the outer except), else what the inner try/except leaves.
trade_step(t, d, t_out) ==
    CASE d.last_trade = "absent"    -> "continue"
      [] d.last_trade = "malformed" -> "raise"
      [] OTHER ->
           IF trades_insert_result(t, d.last_trade, t_out) = "ok"
               THEN "continue"
               ELSE trade_insert_except(trades_insert_result(t, d.last_trade, t_out))

\* The rows one call of save_quote writes, by what the sink answers: the
\* quote row when lines 66-81 do not raise; the trade row when line 84 is
\* reached (the quotes insert returned), the payload has a well-formed
\* last_trade and the trades insert succeeds.
save_quote_writes(t, d, q_out, t_out) ==
    [quote |-> ~quote_insert_raises(d, q_out),
     trade |-> /\ ~quote_insert_raises(d, q_out)
               /\ d.last_trade \in TradeIds
               /\ trades_insert_result(t, d.last_trade, t_out) = "ok"]

\* lines 102-104: arithmetic on the prices raises TypeError on non-numbers.
price_info_raises(d) == d.shape = "non_numeric"

\* lines 107-108
save_succeeded(st) == [st EXCEPT !.successful = @ + 1]

\* A variant that counts a failed save as successful.
save_failed_as_success(st) == [st EXCEPT !.successful = @ + 1]

\* lines 110-113
save_failed(st) == [st EXCEPT !.failed = @ + 1]

(***************************************************************************)
(* collector.py : collect_all_prices, main, signal_handler                 *)
(***************************************************************************)
\* fetch: what fetch_quote did; save: what save_quote counted.  While the
\* symbol is the current one, quote: what lines 66-81 did ("ok": the row
\* was inserted, "no_row": building the row raised, "error": the insert
\* raised) and trade: what lines 84-100 did ("none": no last_trade, or
\* not reached).
NoLog == [fetch |-> "none", quote |-> "none", trade |-> "none", save |-> "none"]

\* A variant that leaves the for loop on a failed fetch.
after_fetch_break(d) == IF Truthy(d) THEN "save" ELSE "cycle_end"

\* lines 124-128: a falsy result skips the save, the loop goes on.
after_fetch(d) == IF Truthy(d) THEN "save" ELSE "delay"

\* lines 34-60: the fetch itself counts nothing.
fetch_counts(st, resp) == st

\* print_stats, lines 130-145
print_stats_line(st) ==
    [printed |-> TRUE, collections |-> st.total_collections,
     successful |-> st.successful, failed |-> st.failed]

NoReport == [printed |-> FALSE, collections |-> 0, successful |-> 0, failed |-> 0]

Deliver(dl, uuid) ==
    IF uuid \in TradeIds THEN [dl EXCEPT ![uuid] = @ + 1] ELSE dl

RECURSIVE SumOver(_, _)
SumOver(f, S) ==
    IF S = {} THEN 0
    ELSE LET x == CHOOSE y \in S : TRUE IN f[x] + SumOver(f, S \ {x})

Deliveries == SumOver(delivered, TradeIds)

\* The faults a response carries: a failed call or an empty result, a
\* malformed quote, a malformed last_trade.
ResponseFaults(resp) ==
    (IF resp.kind # "result" \/ resp.result.shape # "ok" THEN 1 ELSE 0)
        + (IF resp.result.last_trade = "malformed" THEN 1 ELSE 0)

SinkFaults(out) == IF out = "error" THEN 1 ELSE 0

InitPoll ==
    /\ running = TRUE
    /\ stats = [total_collections |-> 0, successful |-> 0, failed |-> 0]
    /\ pc = "start"
    /\ idx = 0
    /\ data = None
    /\ quotes = << >>
    /\ trades = << >>
    /\ report = NoReport
    /\ cycle_log = [i \in SymbolIdx |-> NoLog]
    /\ stopped_at = "none"

\* collect_all_prices, lines 115-122: count the cycle, start the for loop.
EnterCycle ==
    /\ stats.total_collections < MaxCollections
    /\ stats' = [stats EXCEPT !.total_collections = @ + 1]
    /\ idx' = 1
    /\ pc' = "fetch"
    /\ cycle_log' = [i \in SymbolIdx |-> NoLog]

\* main, line 155: run immediately.
MainStart ==
    /\ pc = "start"
    /\ EnterCycle
    /\ UNCHANGED << running, stopped_at, data, quotes, trades, report, envVars, feedVars >>

\* line 123: fetch_quote is called and blocks in requests.post (timeout 5 s).
FetchCall ==
    /\ pc = "fetch"
    /\ pc' = "fetching"
    /\ UNCHANGED << running, stopped_at, stats, idx, data, quotes, trades, report, cycle_log,
                    envVars, feedVars >>

\* lines 34-60 and 124: the call returns.
FetchReturn ==
    /\ pc = "fetching"
    /\ \E resp \in Responses :
         /\ faults + ResponseFaults(resp) <= MaxFaults
         /\ resp.result.last_trade \in TradeIds => Deliveries < MaxDelivered
         /\ faults' = faults + ResponseFaults(resp)
         /\ data' = fetch_quote(resp)
         /\ stats' = fetch_counts(stats, resp)
         /\ cycle_log' = [cycle_log EXCEPT ![idx].fetch =
                             IF FetchFailed(resp) THEN "failed"
                             ELSE IF Truthy(fetch_quote(resp)) THEN "ok" ELSE "empty"]
         /\ delivered' = Deliver(delivered, fetch_quote(resp).last_trade)
         /\ pc' = after_fetch(fetch_quote(resp))
    /\ UNCHANGED << running, stopped_at, idx, quotes, trades, report, frames_left, feedVars >>

\* save_quote, lines 66-81 (and 110-113 when they raise).
SaveBegin ==
    /\ pc = "save"
    /\ \E q_out \in SinkOutcomes :
         /\ faults + SinkFaults(q_out) <= MaxFaults
         /\ faults' = faults + SinkFaults(q_out)
         /\ IF quote_insert_raises(data, q_out)
              THEN /\ stats' = save_failed(stats)
                   /\ cycle_log' = [cycle_log EXCEPT ![idx].save = "failed",
                                                     ![idx].quote = quote_outcome(data, q_out)]
                   /\ pc' = "delay"
                   /\ UNCHANGED quotes
              ELSE /\ quotes' = Append(quotes, [symbol |-> SYMBOLS[idx].symbol,
                                                cycle |-> stats.total_collections])
                   /\ cycle_log' = [cycle_log EXCEPT ![idx].quote = quote_outcome(data, q_out)]
                   /\ pc' = "saving"
                   /\ UNCHANGED stats
    /\ UNCHANGED << running, stopped_at, idx, data, trades, report, delivered, frames_left,
                    feedVars >>

\* save_quote, lines 83-113.
SaveFinish ==
    /\ pc = "saving"
    /\ \E t_out \in SinkOutcomes :
         /\ t_out = "error" => data.last_trade \in TradeIds
         /\ faults + SinkFaults(t_out) <= MaxFaults
         /\ faults' = faults + SinkFaults(t_out)
         /\ LET step == trade_step(trades, data, t_out)
                row  == [trade_uuid |-> data.last_trade]   \* the row's key
                ok   == step = "continue" /\ ~price_info_raises(data)
            IN  /\ trades' = IF data.last_trade \in TradeIds
                                 THEN trades_insert(trades, row, t_out)
                                 ELSE trades
                /\ stats' = IF ok THEN save_succeeded(stats) ELSE save_failed(stats)
                /\ cycle_log' = [cycle_log EXCEPT
                                    ![idx].save = IF ok THEN "ok" ELSE "failed",
                                    ![idx].trade = trade_outcome(trades, data, t_out)]
    /\ pc' = "delay"
    /\ UNCHANGED << running, stopped_at, idx, data, quotes, report, delivered, frames_left,
                    feedVars >>

\* lines 127-128 and the for loop's advance.
Delay ==
    /\ pc = "delay"
    /\ IF idx < Len(SYMBOLS)
           THEN idx' = idx + 1 /\ pc' = "fetch"
           ELSE idx' = idx /\ pc' = "cycle_end"
    /\ data' = None
    /\ cycle_log' = [cycle_log EXCEPT ![idx].quote = "none", ![idx].trade = "none"]
    /\ UNCHANGED << running, stopped_at, stats, quotes, trades, report, envVars,
                    feedVars >>

\* collect_all_prices returns: to line 158 after the first call, to line
\* 169 after a call made in the loop.
CycleEnd ==
    /\ pc = "cycle_end"
    /\ pc' = IF stats.total_collections = 1 THEN "loop" ELSE "stats_timer"
    /\ idx' = 0
    /\ cycle_log' = [i \in SymbolIdx |-> NoLog]
    /\ UNCHANGED << running, stopped_at, stats, data, quotes, trades, report, envVars,
                    feedVars >>

\* line 161: while running
LoopCheck ==
    /\ pc = "loop"
    /\ pc' = IF running THEN "sleep" ELSE "returned"
    /\ UNCHANGED << running, stopped_at, stats, idx, data, quotes, trades, report, cycle_log,
                    envVars, feedVars >>

\* line 163: time.sleep(config.COLLECTION_INTERVAL)
IntervalSleep ==
    /\ pc = "sleep"
    /\ pc' = "recheck"
    /\ UNCHANGED << running, stopped_at, stats, idx, data, quotes, trades, report, cycle_log,
                    envVars, feedVars >>

\* lines 165-166: if running: collect_all_prices()
Recheck ==
    /\ pc = "recheck"
    /\ IF running
           THEN EnterCycle
           ELSE pc' = "stats_timer" /\ UNCHANGED << stats, idx, cycle_log >>
    /\ UNCHANGED << running, stopped_at, data, quotes, trades, report, envVars, feedVars >>

\* lines 169-171: print the statistics when 300 s have passed.
StatsTimer ==
    /\ pc = "stats_timer"
    /\ \E elapsed \in BOOLEAN :
         report' = IF elapsed THEN print_stats_line(stats) ELSE report
    /\ pc' = "loop"
    /\ UNCHANGED << running, stopped_at, stats, idx, data, quotes, trades, cycle_log, envVars,
                    feedVars >>

\* signal_handler, lines 24-30: clear the flag, print, sys.exit(0).  The
\* handler runs between any two bytecodes of the main thread, and
\* SystemExit is no Exception: no except clause of the program catches it.
signal_handler_returns(p) == p     \* a variant that only clears the flag

signal_handler_pc(p) == "exited"

Sigint ==
    /\ pc \notin {"exited", "returned"}
    /\ running' = FALSE
    /\ stopped_at' = pc
    /\ report' = print_stats_line(stats)
    /\ pc' = signal_handler_pc(pc)
    /\ UNCHANGED << stats, idx, data, quotes, trades, cycle_log, envVars, feedVars >>

NextPoll ==
    \/ MainStart
    \/ FetchCall
    \/ FetchReturn
    \/ SaveBegin
    \/ SaveFinish
    \/ Delay
    \/ CycleEnd
    \/ LoopCheck
    \/ IntervalSleep
    \/ Recheck
    \/ StatsTimer
    \/ Sigint

(***************************************************************************)
(* coinbase_websocket.py : inbound frames                                  *)
(***************************************************************************)
LargeTrade == 10000     \* line 153

FeedProducts == {"BTC-USD", "ETH-USD"}

\* A field of a frame: absent, text that float() rejects, or a number.
Missing == [k |-> "missing", v |-> 0]
Bad == [k |-> "bad", v |-> 0]
Num(n) == [k |-> "num", v |-> n]

\* float(data.get(key, 0)): ok = FALSE stands for the ValueError.
ParseFloat(f) ==
    CASE f.k = "missing" -> [ok |-> TRUE, v |-> 0]
      [] f.k = "bad"     -> [ok |-> FALSE, v |-> 0]
      [] OTHER           -> [ok |-> TRUE, v |-> f.v]

TickFields == {Missing, Bad} \cup {Num(n) : n \in 0..MaxTick}

\* raw: "text" is no JSON, "nondict" is JSON but no object, "object" is a
\* JSON object.  type "None" is a missing type, "unhashable" a type that
\* is a JSON array or object.
Frame(raw, type, product, bid, ask, price, size, side, tid) ==
    [raw |-> raw, type |-> type, product_id |-> product, best_bid |-> bid,
     best_ask |-> ask, price |-> price, size |-> size, side |-> side,
     trade_id |-> tid]

TickerFrames ==
    { Frame("object", "ticker", p, b, a, pr, Missing, "missing", "none") :
        p \in FeedProducts, b \in TickFields, a \in TickFields,
        pr \in {Missing, Bad, Num(1)} }

MatchFrames ==
    { Frame("object", t, p, Missing, Missing, pr, Num(1), sd, tid) :
        t \in {"match", "last_match"}, p \in FeedProducts,
        pr \in {Missing, Bad, Num(1), Num(LargeTrade + 1)},
        sd \in {"buy", "sell", "missing", "other"}, tid \in TradeIds }

OtherFrames ==
    { Frame("object", t, "none", Missing, Missing, Missing, Missing, "missing", "none") :
        t \in {"heartbeat", "subscriptions", "error", "foo", "None", "unhashable"} }

RawFrames ==
    { Frame(r, "None", "none", Missing, Missing, Missing, Missing, "missing", "none") :
        r \in {"text", "nondict"} }

Frames == TickerFrames \cup MatchFrames \cup OtherFrames \cup RawFrames

\* The keys message_types can get.
TypeKeys == {"ticker", "match", "last_match", "heartbeat", "subscriptions",
             "error", "foo", "None"}

(***************************************************************************)
(* Exact arithmetic for Python's float division.                           *)
(***************************************************************************)
Abs(n) == IF n < 0 THEN -n ELSE n

RECURSIVE GCD(_, _)
GCD(a, b) == IF b = 0 THEN a ELSE GCD(b, a % b)

\* n / d for d > 0, in lowest terms
Div(n, d) ==
    LET g == IF n = 0 THEN d ELSE GCD(Abs(n), d)
    IN  [n |-> n \div g, d |-> d \div g]

Zero == [n |-> 0, d |-> 1]

(***************************************************************************)
(* coinbase_websocket.py : handle_ticker, handle_match, handle_message     *)
(***************************************************************************)
NoPrice == [set |-> FALSE, bid |-> 0, ask |-> 0, last |-> 0, spread |-> 0, mid |-> Zero]

NoLine == [kind |-> "none", bid |-> 0, ask |-> 0, spread |-> 0, bps |-> Zero,
           mid |-> Zero, side |-> "none"]

Line(kind) == [NoLine EXCEPT !.kind = kind]

\* lines 128-129
spread_of(bid, ask) == IF bid # 0 /\ ask # 0 THEN ask - bid ELSE 0

mid_of(bid, ask) == IF bid # 0 /\ ask # 0 THEN Div(bid + ask, 2) ELSE Zero

\* A variant that relates the spread to the ask.
spread_bps_by_ask(bid, ask) == IF bid > 0 THEN Div((ask - bid) * 10000, ask) ELSE Zero

\* line 135
spread_bps_of(bid, ask) == IF bid > 0 THEN Div((ask - bid) * 10000, bid) ELSE Zero

\* line 134
prints_ticker(count) == count % 10 = 0

\* A variant that files every ticker under one product.
ticker_symbol_fixed(m) == "BTC-USD"

\* line 117: symbol = data.get('product_id')
ticker_symbol(m) == m.product_id

\* lines 115-138.  c is the client after handle_message counted the frame.
handle_ticker(c, m) ==
    LET bid  == ParseFloat(m.best_bid)
        ask  == ParseFloat(m.best_ask)
        last == ParseFloat(m.price)
    IN  IF ~(bid.ok /\ ask.ok /\ last.ok)
            THEN [c EXCEPT !.console = Line("handler_error")]
            ELSE [c EXCEPT
                    !.last_prices[ticker_symbol(m)] =
                        [set |-> TRUE, bid |-> bid.v, ask |-> ask.v, last |-> last.v,
                         spread |-> spread_of(bid.v, ask.v),
                         mid |-> mid_of(bid.v, ask.v)],
                    !.console =
                        IF prints_ticker(c.message_types["ticker"])
                            THEN [kind |-> "ticker", bid |-> bid.v, ask |-> ask.v,
                                  spread |-> ask.v - bid.v,
                                  bps |-> spread_bps_of(bid.v, ask.v),
                                  mid |-> mid_of(bid.v, ask.v), side |-> "none"]
                            ELSE Line("silent")]

\* line 155: side.upper() of a side that is a string
side_upper(side) ==
    CASE side = "buy"  -> "BUY"
      [] side = "sell" -> "SELL"
      [] OTHER         -> "OTHER"

\* lines 140-156: nothing is stored; a large trade is printed, and
\* side.upper() raises AttributeError when side is missing.
handle_match(c, m) ==
    LET price == ParseFloat(m.price)
        size  == ParseFloat(m.size)
    IN  IF ~(price.ok /\ size.ok)
            THEN [c EXCEPT !.console = Line("handler_error")]
        ELSE IF price.v * size.v > LargeTrade
            THEN IF m.side = "missing"
                     THEN [c EXCEPT !.console = Line("handler_error")]
                     ELSE [c EXCEPT !.console =
                              [Line("trade") EXCEPT !.side = side_upper(m.side)]]
        ELSE [c EXCEPT !.console = Line("silent")]

\* lines 93-94: count the frame; an unhashable type raises TypeError after
\* message_count was increased.
count_frame(c, m) ==
    IF m.type = "unhashable"
        THEN [c EXCEPT !.message_count = @ + 1]
        ELSE [c EXCEPT !.message_count = @ + 1,
                       !.message_types[m.type] = @ + 1]

\* lines 86-113
handle_message(c, m) ==
    CASE m.raw = "text"    -> [c EXCEPT !.console = Line("parse_error")]
      [] m.raw = "nondict" -> [c EXCEPT !.console = Line("handler_error")]
      [] OTHER ->
           LET counted == count_frame(c, m)
           IN  CASE m.type = "unhashable" ->
                        [counted EXCEPT !.console = Line("handler_error")]
                 [] m.type = "ticker" -> handle_ticker(counted, m)
                 [] m.type \in {"match", "last_match"} -> handle_match(counted, m)
                 [] m.type = "subscriptions" ->
                        [counted EXCEPT !.console = Line("subscribed")]
                 [] m.type = "error" ->
                        [counted EXCEPT !.console = Line("source_error")]
                 [] OTHER -> [counted EXCEPT !.console = Line("silent")]

Client ==
    [message_count |-> message_count, message_types |-> message_types,
     last_prices |-> last_prices, console |-> console]

SetClient(c) ==
    /\ message_count' = c.message_count
    /\ message_types' = c.message_types
    /\ last_prices' = c.last_prices
    /\ console' = c.console

(***************************************************************************)
(* coinbase_websocket.py : run, connect, subscribe, receive_messages,      *)
(* disconnect, print_statistics, signal_handler                            *)
(***************************************************************************)
InitFeed ==
    /\ ws_running = TRUE
    /\ ws = "None"
    /\ fpc = "start"
    /\ message_count = 0
    /\ message_types = [t \in TypeKeys |-> 0]
    /\ last_prices = [p \in FeedProducts |-> NoPrice]
    /\ console = NoLine
    /\ calls = [connect |-> 0, connect_ok |-> 0, send |-> 0, send_ok |-> 0,
                recv |-> 0, close |-> 0]
    /\ loop_exit = "none"
    /\ recv_after_stop = 0
    /\ final_stats = FALSE

\* A variant that enters the receive loop without subscribing.
after_connect_no_subscribe(ok) == IF ok THEN "loop" ELSE "done"

\* lines 218-220: run returns when connect failed.
after_connect(ok) == IF ok THEN "subscribe" ELSE "done"

\* A variant that ignores what subscribe returned.
after_subscribe_ignored(ok) == "loop"

\* lines 223-225: run disconnects and returns when subscribe failed.
after_subscribe(ok) == IF ok THEN "loop" ELSE "disconnect_early"

\* line 162
loop_condition(r, w) == r /\ w # "None"

\* A variant that leaves the loop after a handled frame.
after_receive_once(outcome) ==
    IF outcome = "timeout" THEN "loop" ELSE "disconnect"

\* lines 171-179: what each receive outcome does to the loop.
after_receive(outcome) ==
    CASE outcome = "message" -> "loop"
      [] outcome = "timeout" -> "loop"        \* continue
      [] outcome = "closed"  -> "disconnect"  \* break
      [] OTHER               -> "disconnect"  \* break

\* lines 209-213: nothing catches an exception of ws.close().
disconnect_result(w, close_ok) ==
    IF w = "None" THEN "return"
    ELSE IF close_ok THEN "return" ELSE "raise"

\* lines 232-234 and 224-225: where run goes on after disconnect.
after_disconnect(p, res) ==
    IF res = "raise" THEN "crashed"
    ELSE IF p = "disconnect_early" THEN "done" ELSE "stats"

\* The connection state at each position of run(): no connection before
\* connect and after disconnect returned; connecting inside connect();
\* connected once self.ws is set; subscribed once the subscribe frame was
\* sent (the receive loop); closing from the call of disconnect until
\* ws.close() returns (it never returns in a run that ends "crashed").
ConnectionState(p) ==
    CASE p = "start"                              -> "Disconnected"
      [] p = "connecting"                         -> "Connecting"
      [] p = "subscribe"                          -> "Connected"
      [] p \in {"loop", "recv"}                   -> "Subscribed"
      [] p \in {"disconnect", "disconnect_early"} -> "Closing"
      [] p = "crashed"                            -> "Closing"
      [] OTHER                                    -> "Disconnected"

\* run, line 218: connect is called and blocks in websockets.connect
\* (line 53).
ConnectCall ==
    /\ fpc = "start"
    /\ fpc' = "connecting"
    /\ calls' = [calls EXCEPT !.connect = @ + 1]
    /\ UNCHANGED << ws_running, ws, clientVars, loop_exit, recv_after_stop,
                    final_stats, pollVars, envVars >>

\* connect, lines 53-58, and run, lines 218-220
Connect ==
    /\ fpc = "connecting"
    /\ \E ok \in BOOLEAN :
         /\ ws' = IF ok THEN "open" ELSE ws
         /\ fpc' = after_connect(ok)
         /\ calls' = [calls EXCEPT !.connect_ok = IF ok THEN @ + 1 ELSE @]
    /\ UNCHANGED << ws_running, clientVars, loop_exit, recv_after_stop, final_stats,
                    pollVars, envVars >>

\* subscribe, lines 60-84
Subscribe ==
    /\ fpc = "subscribe"
    /\ IF ws = "None"
           THEN fpc' = after_subscribe(FALSE) /\ UNCHANGED calls
           ELSE \E ok \in BOOLEAN :
                  /\ calls' = [calls EXCEPT !.send = @ + 1,
                                            !.send_ok = IF ok THEN @ + 1 ELSE @]
                  /\ fpc' = after_subscribe(ok)
    /\ UNCHANGED << ws_running, ws, clientVars, loop_exit, recv_after_stop,
                    final_stats, pollVars, envVars >>

\* receive_messages, line 162
FeedLoopCheck ==
    /\ fpc = "loop"
    /\ IF loop_condition(ws_running, ws)
           THEN fpc' = "recv" /\ UNCHANGED loop_exit
           ELSE fpc' = "disconnect" /\ loop_exit' = "shutdown"
    /\ UNCHANGED << ws_running, ws, clientVars, calls, recv_after_stop, final_stats,
                    pollVars, envVars >>

Stopped(n) == IF ws_running THEN n ELSE n + 1

\* lines 165-169: a frame arrives and handle_message handles it.
RecvMessage ==
    /\ fpc = "recv"
    /\ frames_left > 0
    /\ \E m \in Frames :
         /\ m.trade_id \in TradeIds => Deliveries < MaxDelivered
         /\ SetClient(handle_message(Client, m))
         /\ delivered' = Deliver(delivered, m.trade_id)
    /\ frames_left' = frames_left - 1
    /\ calls' = [calls EXCEPT !.recv = @ + 1]
    /\ recv_after_stop' = Stopped(recv_after_stop)
    /\ fpc' = after_receive("message")
    /\ UNCHANGED << ws_running, ws, loop_exit, final_stats, pollVars, faults >>

\* lines 171-173: asyncio.TimeoutError after 1 s
RecvTimeout ==
    /\ fpc = "recv"
    /\ fpc' = after_receive("timeout")
    /\ recv_after_stop' = Stopped(recv_after_stop)
    /\ UNCHANGED << ws_running, ws, clientVars, calls, loop_exit, final_stats,
                    pollVars, envVars >>

\* lines 174-176: websockets.exceptions.ConnectionClosed
RecvClosed ==
    /\ fpc = "recv"
    /\ fpc' = after_receive("closed")
    /\ loop_exit' = "closed"
    /\ recv_after_stop' = Stopped(recv_after_stop)
    /\ UNCHANGED << ws_running, ws, clientVars, calls, final_stats, pollVars,
                    envVars >>

\* lines 177-179: any other exception of recv
RecvError ==
    /\ fpc = "recv"
    /\ fpc' = after_receive("error")
    /\ loop_exit' = "error"
    /\ recv_after_stop' = Stopped(recv_after_stop)
    /\ UNCHANGED << ws_running, ws, clientVars, calls, final_stats, pollVars,
                    envVars >>

\* disconnect, lines 209-213, called at line 224 or 233
Disconnect ==
    /\ fpc \in {"disconnect", "disconnect_early"}
    /\ \E close_ok \in BOOLEAN :
         fpc' = after_disconnect(fpc, disconnect_result(ws, close_ok))
    /\ calls' = IF ws = "None" THEN calls ELSE [calls EXCEPT !.close = @ + 1]
    /\ UNCHANGED << ws_running, ws, clientVars, loop_exit, recv_after_stop,
                    final_stats, pollVars, envVars >>

\* print_statistics, lines 181-207, called at line 234
PrintStatistics ==
    /\ fpc = "stats"
    /\ final_stats' = TRUE
    /\ fpc' = "done"
    /\ UNCHANGED << ws_running, ws, clientVars, calls, loop_exit, recv_after_stop,
                    pollVars, envVars >>

\* signal_handler, lines 21-25: only clears the flag
FeedSigint ==
    /\ fpc \notin {"done", "crashed"}
    /\ ws_running
    /\ ws_running' = FALSE
    /\ UNCHANGED << ws, fpc, clientVars, calls, loop_exit, recv_after_stop,
                    final_stats, pollVars, envVars >>

NextFeed ==
    \/ ConnectCall
    \/ Connect
    \/ Subscribe
    \/ FeedLoopCheck
    \/ RecvMessage
    \/ RecvTimeout
    \/ RecvClosed
    \/ RecvError
    \/ Disconnect
    \/ PrintStatistics
    \/ FeedSigint

Init ==
    /\ InitPoll
    /\ InitFeed
    /\ delivered = [t \in TradeIds |-> 0]
    /\ faults = 0
    /\ frames_left = MaxMessages

SpecPoll == Init /\ [][NextPoll]_vars

SpecFeed == Init /\ [][NextFeed]_vars

(***************************************************************************)
(* The frame handler started from a client that has already counted n      *)
(* ticker frames (n frames whose price did not parse leave last_prices     *)
(* empty) and now handles one more frame: handle_ticker prints only every  *)
(* 10th ticker.                                                            *)
(***************************************************************************)
InitTicker ==
    /\ InitPoll
    /\ \E n \in 0..MaxTickerCount :
         /\ message_count = n
         /\ message_types = [t \in TypeKeys |-> IF t = "ticker" THEN n ELSE 0]
         /\ console = IF n = 0 THEN NoLine ELSE Line("handler_error")
         /\ calls = [connect |-> 1, connect_ok |-> 1, send |-> 1, send_ok |-> 1,
                     recv |-> n, close |-> 0]
    /\ ws_running = TRUE
    /\ ws = "open"
    /\ fpc = "recv"
    /\ last_prices = [p \in FeedProducts |-> NoPrice]
    /\ loop_exit = "none"
    /\ recv_after_stop = 0
    /\ final_stats = FALSE
    /\ delivered = [t \in TradeIds |-> 0]
    /\ faults = 0
    /\ frames_left = 1       \* one more frame is handled from each start

NextTicker ==
    \/ FeedLoopCheck
    \/ RecvMessage

SpecTicker == InitTicker /\ [][NextTicker]_vars

(***************************************************************************)
(* The frame handler started from a client whose last_prices already hold  *)
(* entries: each product has no entry yet or an entry that handle_ticker   *)
(* stored for an earlier ticker frame of that product (bid 1, price 1, any *)
(* ask), and the client has counted one ticker frame per entry.            *)
(***************************************************************************)
EmptyClient ==
    [message_count |-> 0, message_types |-> [t \in TypeKeys |-> 0],
     last_prices |-> [p \in FeedProducts |-> NoPrice], console |-> NoLine]

PriorEntries(p) ==
    {NoPrice} \cup
    { handle_ticker(EmptyClient, m).last_prices[p] :
        m \in { f \in TickerFrames : /\ f.product_id = p
                                     /\ f.best_bid = Num(1)
                                     /\ f.best_ask.k = "num"
                                     /\ f.price = Num(1) } }

InitPrices ==
    /\ InitPoll
    /\ last_prices \in [FeedProducts -> UNION { PriorEntries(p) : p \in FeedProducts }]
    /\ \A p \in FeedProducts : last_prices[p] \in PriorEntries(p)
    /\ LET n == Cardinality({ p \in FeedProducts : last_prices[p].set })
       IN  /\ message_count = n
           /\ message_types = [t \in TypeKeys |-> IF t = "ticker" THEN n ELSE 0]
           /\ console = IF n = 0 THEN NoLine ELSE Line("silent")
           /\ calls = [connect |-> 1, connect_ok |-> 1, send |-> 1, send_ok |-> 1,
                       recv |-> n, close |-> 0]
    /\ ws_running = TRUE
    /\ ws = "open"
    /\ fpc = "recv"
    /\ loop_exit = "none"
    /\ recv_after_stop = 0
    /\ final_stats = FALSE
    /\ delivered = [t \in TradeIds |-> 0]
    /\ faults = 0
    /\ frames_left = 1       \* one more frame is handled from each start

SpecPrices == InitPrices /\ [][NextTicker]_vars

(***************************************************************************)
(* Properties                                                              *)
(***************************************************************************)
QuoteRows(sym, cyc) ==
    { i \in 1..Len(quotes) : quotes[i].symbol = sym /\ quotes[i].cycle = cyc }

TradeRows(uuid) == { i \in 1..Len(trades) : trades[i].trade_uuid = uuid }

\* Symbol j of the current cycle was processed: its fetch was made, its
\* save was called when the fetch returned a quote, and a saved quote has
\* its row.
Processed(j) ==
    /\ cycle_log[j].fetch # "none"
    /\ cycle_log[j].fetch = "ok" => cycle_log[j].save # "none"
    /\ cycle_log[j].save = "ok" =>
           QuoteRows(SYMBOLS[j].symbol, stats.total_collections) # {}

SomeFailed(j) == cycle_log[j].fetch = "failed" \/ cycle_log[j].save = "failed"

\* C1: a failed fetch or a failed save of one symbol never aborts the
\* poll cycle: every symbol before the current one has been processed,
\* whatever failed before it, and collect_all_prices returns only after
\* every configured symbol was processed.
C1_CycleNotAborted ==
    /\ \A j \in SymbolIdx : j < idx => Processed(j)
    /\ pc = "cycle_end" => \A j \in SymbolIdx : Processed(j)

\* A cycle in which the first symbol's fetch failed, the second symbol's
\* save failed and the third symbol was fetched and saved.
C1_Witness ==
    /\ pc = "cycle_end"
    /\ cycle_log[1].fetch = "failed"
    /\ cycle_log[2].save = "failed"
    /\ cycle_log[3].save = "ok"
    /\ QuoteRows(SYMBOLS[3].symbol, stats.total_collections) # {}

\* C2: at the end of the first poll cycle the successful counter is the
\* number of symbols fetched and saved, the failed counter is the number
\* of symbols whose fetch failed or whose save failed, and a symbol whose
\* fetch failed has no quote row.
C2_CountersAfterCycle ==
    (pc = "cycle_end" /\ stats.total_collections = 1) =>
        /\ stats.successful =
               Cardinality({ j \in SymbolIdx : cycle_log[j].save = "ok" })
        /\ stats.failed = Cardinality({ j \in SymbolIdx : SomeFailed(j) })
        /\ \A j \in SymbolIdx :
               cycle_log[j].fetch = "failed" => QuoteRows(SYMBOLS[j].symbol, 1) = {}

\* C3: once a trade identifier was delivered two or more times (by poll
\* payloads or by match frames of the feed), exactly one trade row
\* exists for it.
C3_OneRowPerTrade ==
    \A t \in TradeIds : delivered[t] >= 2 => Cardinality(TradeRows(t)) = 1

\* A frame was received and handle_message logged it as unparseable or
\* failed in its handler, or counted it under a type it does not know.
MalformedHandled ==
    /\ calls'.recv = calls.recv + 1
    /\ \/ console'.kind \in {"parse_error", "handler_error"}
       \/ message_types'["foo"] > message_types["foo"]
       \/ message_types'["None"] > message_types["None"]

\* C4: a malformed inbound frame is skipped and counted (some counter of
\* the client changes), and the receive loop goes on.
C4_MalformedCounted ==
    [][MalformedHandled =>
          /\ fpc' = "loop"
          /\ << message_count, message_types >>' # << message_count, message_types >>
      ]_vars

RunOver == fpc \in {"done", "crashed"}

\* C5: once the flag is cleared in the receive cycle, at most one more
\* receive outcome completes, then the loop is left, then disconnect is
\* called, then the final statistics are printed: the statistics come
\* after the close, the close after the loop, and a run that left the
\* loop on shutdown does not end without the statistics.
C5_ShutdownOrder ==
    /\ recv_after_stop <= 1
    /\ final_stats => calls.close > 0 /\ loop_exit # "none"
    /\ (loop_exit # "none" /\ ~ws_running) => fpc \notin {"loop", "recv"}
    /\ (RunOver /\ loop_exit = "shutdown") => final_stats

CyclePcs == {"fetch", "fetching", "save", "saving", "delay", "cycle_end"}

\* C6: in poll mode a shutdown signal that arrives inside a collection
\* cycle does not preempt it: no step taken inside a cycle ends the
\* process, which ends only where the flag is read (lines 161, 165).
C6_NoPreemption ==
    [][(pc \in CyclePcs) => (pc' \notin {"exited", "returned"})]_vars

\* C7: a subscribe frame is sent only after connect succeeded, and the
\* receive loop is entered (and a frame received) only after the
\* subscribe frame was sent successfully.
C7_ConnectSubscribeReceive ==
    /\ calls.send > 0 => calls.connect_ok > 0
    /\ calls.connect_ok = 0 => calls.send = 0 /\ calls.recv = 0
    /\ calls.send_ok = 0 => calls.recv = 0 /\ fpc \notin {"loop", "recv"}
    /\ loop_exit # "none" => calls.send_ok > 0

\* A run in which connect succeeded, the subscribe frame could not be
\* sent, and run returned.
C7_Witness ==
    /\ fpc = "done"
    /\ calls.connect_ok = 1
    /\ calls.send = 1
    /\ calls.send_ok = 0
    /\ calls.recv = 0

\* A step that leaves the blocked receive without a frame, a close or an
\* error: the 1 s timeout.
TimeoutStep ==
    /\ fpc = "recv"
    /\ fpc' # fpc
    /\ calls'.recv = calls.recv
    /\ loop_exit' = loop_exit

\* C8: when the remote closes or a receive raises another error than a
\* timeout, the loop ends: nothing more is received, connect is called
\* at most once, and disconnect and the final statistics follow; a
\* timeout never ends the loop while the flag is set.
C8_CloseEndsLoop ==
    [][ /\ calls'.connect <= 1
        /\ loop_exit \in {"closed", "error"} =>
               calls'.recv = calls.recv /\ fpc' \notin {"loop", "recv"}
        /\ (RunOver' /\ loop_exit' \in {"closed", "error"}) =>
               calls'.close > 0 /\ final_stats'
        /\ (TimeoutStep /\ ws_running) => fpc' = "loop"
      ]_vars

\* C9: closing never fails the shutdown path: disconnect returns
\* normally also when the transport's close fails, so a run that
\* entered the receive loop ends with the final statistics printed.
C9_CloseNeverFails ==
    /\ fpc # "crashed"
    /\ (fpc = "done" /\ calls.send_ok > 0) => final_stats

\* C10: for a ticker with bid > 0 and ask > 0 the handler derives
\* mid = (bid + ask) / 2, spread = ask - bid and
\* spread_bps = spread / bid * 10000.
C10_TickerDerived ==
    /\ \A p \in FeedProducts :
         LET e == last_prices[p]
         IN  (e.set /\ e.bid > 0 /\ e.ask > 0) =>
                 /\ e.mid.n * 2 = (e.bid + e.ask) * e.mid.d
                 /\ e.mid.d > 0
                 /\ e.spread = e.ask - e.bid
    /\ (console.kind = "ticker" /\ console.bid > 0 /\ console.ask > 0) =>
           /\ console.spread = console.ask - console.bid
           /\ console.mid.n * 2 = (console.bid + console.ask) * console.mid.d
           /\ console.bps.n * console.bid
                  = (console.ask - console.bid) * 10000 * console.bps.d
           /\ console.bps.d > 0

\* The 10th ticker, with bid 1 and ask 2, was handled and printed.
C10_Witness ==
    /\ console.kind = "ticker"
    /\ console.bid = 1
    /\ console.ask = 2
    /\ message_types["ticker"] = 10
    /\ \E p \in FeedProducts : last_prices[p].set /\ last_prices[p].bid = 1

\* The step receives a frame and leaves the client as handle_message
\* leaves it for frame m.
HandledBy(m) ==
    /\ fpc = "recv"
    /\ calls'.recv = calls.recv + 1
    /\ LET c == handle_message(Client, m)
       IN  /\ message_count' = c.message_count
           /\ message_types' = c.message_types
           /\ last_prices' = c.last_prices
           /\ console' = c.console

\* A value that is a number: a fraction with a denominator.
IsNumber(x) == x.d > 0

\* A ticker frame whose fields parse and whose bid or ask is 0 (a missing
\* best_bid or best_ask reads as 0).
ZeroSide(m) ==
    /\ m.type = "ticker"
    /\ ParseFloat(m.best_bid).ok /\ ParseFloat(m.best_ask).ok /\ ParseFloat(m.price).ok
    /\ ParseFloat(m.best_bid).v = 0 \/ ParseFloat(m.best_ask).v = 0

\* C11: for a ticker with bid = 0 or ask = 0 the handler raises no error
\* (no division by zero), whatever the ticker count, and reports mid and
\* spread as undefined, not as a number: neither the stored entry nor a
\* printed line carries a numeric mid or spread.
C11_ZeroSideUndefined ==
    [][\A m \in TickerFrames :
          (ZeroSide(m) /\ HandledBy(m)) =>
              /\ console'.kind # "handler_error"
              /\ ~IsNumber(last_prices'[m.product_id].mid)
              /\ last_prices'[m.product_id].spread \notin Int
              /\ (console'.kind = "ticker") =>
                     (~IsNumber(console'.mid) /\ console'.spread \notin Int)
      ]_vars

\* The step in which save_quote returns for the current symbol.
SaveReturned ==
    /\ idx \in SymbolIdx
    /\ cycle_log[idx].save = "none"
    /\ cycle_log'[idx].save # "none"

\* C12: when the trades insert fails for another reason than a duplicate
\* trade identifier, save_quote does not return success and the
\* successful counter does not count it; a duplicate-identifier failure
\* alone leaves the save a success.
C12_TradeFailureReported ==
    [][SaveReturned =>
          /\ (cycle_log'[idx].trade = "error") =>
                 /\ cycle_log'[idx].save = "failed"
                 /\ stats'.successful = stats.successful
          /\ (cycle_log'[idx].trade = "duplicate" /\ data.shape = "ok") =>
                 /\ cycle_log'[idx].save = "ok"
                 /\ stats'.successful = stats.successful + 1
      ]_vars

\* The number of rows of the current symbol in the current cycle.
CurrentRows == Cardinality(QuoteRows(SYMBOLS[idx].symbol, stats.total_collections))

QuoteFailed(l) == l.quote \in {"no_row", "error"}

SymbolPcs == {"fetch", "fetching", "save", "saving", "delay"}

\* C13: quotes is append-only with one row per event: no step changes or
\* removes a row; a fetched quote whose insert succeeds adds exactly one
\* row (its own); a save whose quotes insert fails adds no row, is
\* counted failed and not successful, and the cycle goes on with the
\* next symbol.
C13_QuotesAppendOnly ==
    [][ /\ Len(quotes') \in {Len(quotes), Len(quotes) + 1}
        /\ SubSeq(quotes', 1, Len(quotes)) = quotes
        /\ (pc' \in SymbolPcs) =>        \* the symbol idx' is being processed
              /\ cycle_log'[idx'].quote = "ok" =>
                     cycle_log'[idx'].fetch = "ok" /\ CurrentRows' = 1
              /\ cycle_log'[idx'].quote # "ok" => CurrentRows' = 0
              /\ QuoteFailed(cycle_log'[idx']) => cycle_log'[idx'].save = "failed"
        /\ (SaveReturned /\ QuoteFailed(cycle_log'[idx])) =>
              /\ quotes' = quotes
              /\ stats'.failed = stats.failed + 1
              /\ stats'.successful = stats.successful
        /\ (pc = "delay" /\ QuoteFailed(cycle_log[idx]) /\ pc' # "exited") =>
              pc' = IF idx < Len(SYMBOLS) THEN "fetch" ELSE "cycle_end"
      ]_vars

\* The first symbol's quote was fetched and its save failed without a
\* row (the quotes insert failed), and the second symbol's quotes insert
\* failed in the sink after that; the third symbol's quote was fetched
\* and inserted.
C13_Witness ==
    /\ pc = "delay"
    /\ idx = 3
    /\ cycle_log[1].fetch = "ok" /\ cycle_log[1].save = "failed"
    /\ cycle_log[2].fetch = "ok" /\ cycle_log[2].save = "failed"
    /\ cycle_log[3].quote = "ok"
    /\ Cardinality(QuoteRows(SYMBOLS[1].symbol, stats.total_collections)) = 0
    /\ Cardinality(QuoteRows(SYMBOLS[2].symbol, stats.total_collections)) = 0
    /\ Cardinality(QuoteRows(SYMBOLS[3].symbol, stats.total_collections)) = 1
    /\ stats.failed = 2

\* A match frame whose price and size parse and whose side is missing or
\* is neither buy nor sell.
UnknownSide(m) ==
    /\ m.type \in {"match", "last_match"}
    /\ m.side \in {"missing", "other"}
    /\ ParseFloat(m.price).ok /\ ParseFloat(m.size).ok

\* C14: a match or last_match frame with a missing or unknown side is
\* handled without an error at every price and size, also above the
\* large-trade threshold, and the trade it reports has side "unknown".
C14_UnknownSideKept ==
    [][\A m \in MatchFrames :
          (UnknownSide(m) /\ HandledBy(m)) =>
              /\ console'.kind # "handler_error"
              /\ (console'.kind = "trade") => (console'.side = "UNKNOWN")
      ]_vars

\* A heartbeat, subscriptions or error-from-source frame.
Ignored(m) == m.type \in {"heartbeat", "subscriptions", "error"}

\* C15: handling a heartbeat, subscriptions or error frame writes no
\* Quote and no Trade and does not end the stream: the loop goes on, and
\* after an error frame the next receive is still made; a ticker or
\* match frame is handled the same whether or not a subscriptions frame
\* was received before.
C15_IgnoredFrames ==
    [][ /\ \A m \in OtherFrames :
              (Ignored(m) /\ HandledBy(m)) =>
                  /\ quotes' = quotes /\ trades' = trades
                  /\ last_prices' = last_prices
                  /\ fpc' = "loop"
                  /\ loop_exit' = loop_exit /\ ws' = ws
        /\ (console.kind = "source_error" /\ fpc = "loop"
               /\ loop_condition(ws_running, ws)) => fpc' \in {"loop", "recv"}
        /\ (message_types'["ticker"] = message_types["ticker"] + 1
               /\ console'.kind # "handler_error") =>
              \E p \in FeedProducts : last_prices'[p].set /\ last_prices'[p] # NoPrice
        /\ (message_types'["match"] = message_types["match"] + 1
               /\ console'.kind # "handler_error") =>
              console'.kind \in {"trade", "silent"}
      ]_vars

\* An error frame and then a ticker frame were received, no subscriptions
\* frame was, and the ticker was handled and stored.
C15_Witness ==
    /\ message_types["error"] = 1
    /\ message_types["ticker"] = 1
    /\ message_types["subscriptions"] = 0
    /\ console.kind = "silent"
    /\ \E p \in FeedProducts : last_prices[p].set

\* The transitions of the feed client's state machine.
ListedTransitions ==
    { << "Disconnected", "Connecting" >>, << "Connecting", "Connected" >>,
      << "Connected", "Subscribed" >>, << "Subscribed", "Closing" >>,
      << "Closing", "Disconnected" >> }

\* What run() does when connect or subscribe fails.
FailureTransitions ==
    { << "Connecting", "Disconnected" >>, << "Connected", "Closing" >> }

StateChange == << ConnectionState(fpc), ConnectionState(fpc') >>

\* C16 as stated: the connection state changes only along Disconnected ->
\* Connecting -> Connected -> Subscribed -> Closing -> Disconnected;
\* Closing is entered only from Subscribed, and frames are received only
\* in Subscribed.
C16_OnlyListedTransitions ==
    [][ /\ (StateChange[1] # StateChange[2]) => (StateChange \in ListedTransitions)
        /\ (calls'.recv > calls.recv) => (ConnectionState(fpc) = "Subscribed")
      ]_vars

\* C16 amended: the connection state changes only along the listed
\* transitions or, when connect fails, Connecting -> Disconnected and,
\* when sending the subscribe frame fails, Connected -> Closing; Closing
\* is entered from Connected only after a failed subscribe, and frames
\* are received only in Subscribed.
C16_Transitions ==
    [][ /\ (StateChange[1] # StateChange[2]) =>
              (StateChange \in ListedTransitions \cup FailureTransitions)
        /\ (StateChange = << "Connecting", "Disconnected" >>) =>
              (calls'.connect_ok = 0 /\ ws' = "None")
        /\ (StateChange = << "Connected", "Closing" >>) => (calls'.send_ok = 0)
        /\ (calls'.recv > calls.recv) => (ConnectionState(fpc) = "Subscribed")
      ]_vars

\* The subscribe frame could not be sent and run() is about to close the
\* connection it opened.
C16_Witness ==
    /\ fpc = "disconnect_early"
    /\ ws = "open"
    /\ calls.send = 1
    /\ calls.send_ok = 0

\* save_quote is about to be called with a well-formed payload whose
\* last_trade is not stored yet.
SavingNewTrade ==
    /\ pc = "save"
    /\ data.shape = "ok"
    /\ data.last_trade \in TradeIds
    /\ ~HasTrade(trades, data.last_trade)

\* C17: the Quote write and the Trade write of one payload are
\* independent in both directions: when a payload with a new trade is
\* saved, some answers of the sink leave the Quote row written and the
\* Trade row not, and some leave the Trade row written and the Quote row
\* not.
C17_IndependentWrites ==
    SavingNewTrade =>
        /\ \E q_out \in SinkOutcomes, t_out \in SinkOutcomes :
               LET w == save_quote_writes(trades, data, q_out, t_out)
               IN  w.quote /\ ~w.trade
        /\ \E q_out \in SinkOutcomes, t_out \in SinkOutcomes :
               LET w == save_quote_writes(trades, data, q_out, t_out)
               IN  w.trade /\ ~w.quote

\* What the code does instead: inside a cycle, a symbol's trade row was
\* written only if its quote row was.
TradeOnlyAfterQuote ==
    \A j \in SymbolIdx : cycle_log[j].trade = "ok" => cycle_log[j].quote = "ok"

\* save_quote_writes agrees with the steps of save_quote: the step of
\* lines 66-81 writes the quote row exactly when some answer of the sink
\* makes save_quote_writes say so and writes no trade row; the step of
\* lines 83-113, taken after the quotes insert returned, writes the trade
\* row exactly when save_quote_writes says so.
WritesAgree ==
    [][ /\ (pc = "save" /\ pc' \in {"saving", "delay"}) =>
              /\ trades' = trades
              /\ \E q_out \in SinkOutcomes :
                    /\ (quotes' # quotes) = save_quote_writes(trades, data, q_out, "ok").quote
                    /\ cycle_log'[idx].quote = quote_outcome(data, q_out)
        /\ (pc = "saving" /\ pc' = "delay") =>
              /\ quotes' = quotes
              /\ \E t_out \in SinkOutcomes :
                    /\ (trades' # trades) = save_quote_writes(trades, data, "ok", t_out).trade
                    /\ cycle_log'[idx].trade = trade_outcome(trades, data, t_out)
        /\ (pc \notin {"save", "saving"}) => (quotes' = quotes /\ trades' = trades)
      ]_vars

\* C19: in poll mode, once the flag `running` is false no new collection
\* cycle starts: it stays false, total_collections does not increase
\* any more, and collect_all_prices is entered (total_collections
\* counted up) only by a step that begins and ends with the flag set.
C19_NoCycleAfterStop ==
    [][ /\ (~running) =>
              /\ ~running'
              /\ stats'.total_collections = stats.total_collections
              /\ pc' \notin CyclePcs \/ pc' = pc
        /\ (stats'.total_collections > stats.total_collections) =>
              (running /\ running')
        /\ (~running') => (stats'.total_collections = stats.total_collections)
      ]_vars

\* The flag was cleared during the interval sleep after the first cycle,
\* and no second cycle was started.
C19_Witness ==
    /\ ~running
    /\ stopped_at = "sleep"
    /\ stats.total_collections = 1
    /\ pc \notin CyclePcs

\* The per-type counters that the step increased by one.
Bumped == { t \in TypeKeys : message_types'[t] = message_types[t] + 1 }

\* C20: message_count is the sum of the per-type counters in every
\* state; a frame that parses as JSON increases message_count and
\* exactly one per-type counter by one, also when its handler fails; a
\* frame that does not parse, and a receive timeout, change neither.
C20_CountIsSumOfTypes ==
    [][ /\ message_count' = SumOver(message_types', TypeKeys)
        /\ \A m \in Frames :
              HandledBy(m) =>
                  IF m.raw # "text"
                      THEN /\ message_count' = message_count + 1
                           /\ Cardinality(Bumped) = 1
                           /\ \A t \in TypeKeys \ Bumped :
                                  message_types'[t] = message_types[t]
                      ELSE /\ message_count' = message_count
                           /\ message_types' = message_types
        /\ TimeoutStep =>
              (message_count' = message_count /\ message_types' = message_types)
      ]_vars

\* No call of save_quote is under way (nor was one cut off by the exit).
BetweenCalls == pc # "saving" /\ stopped_at # "saving"

\* C21: every completed call of save_quote increases exactly one of the
\* successful and failed counters by one and leaves the other, and
\* between calls the number of rows in quotes equals the successful
\* counter: a call counted as failed has written no quote row.
C21_CountersMatchStore ==
    [][ /\ SaveReturned =>
              \/ /\ stats'.successful = stats.successful + 1
                 /\ stats'.failed = stats.failed
              \/ /\ stats'.successful = stats.successful
                 /\ stats'.failed = stats.failed + 1
        /\ (SaveReturned /\ cycle_log'[idx].save = "failed") => (CurrentRows' = 0)
        /\ BetweenCalls' => (Len(quotes') = stats'.successful)
      ]_vars

\* A ticker frame whose numeric fields all parse.
TickerParses(m) ==
    /\ m.raw = "object" /\ m.type = "ticker"
    /\ ParseFloat(m.best_bid).ok /\ ParseFloat(m.best_ask).ok /\ ParseFloat(m.price).ok

\* C22: handling a ticker frame for symbol s replaces the last_prices
\* entry of s (by the frame's bid, ask and price) and leaves the entry of
\* every other symbol as it was; handling any other frame, or a ticker
\* whose numeric fields do not parse, leaves last_prices as it was, and
\* so does every step that handles no frame.
C22_OnlyOwnEntry ==
    [][ /\ (calls'.recv = calls.recv) => (last_prices' = last_prices)
        /\ (calls'.recv # calls.recv) =>
              \A m \in Frames :
                  HandledBy(m) =>
                      IF TickerParses(m)
                          THEN /\ last_prices'[m.product_id].set
                               /\ last_prices'[m.product_id].bid = ParseFloat(m.best_bid).v
                               /\ last_prices'[m.product_id].ask = ParseFloat(m.best_ask).v
                               /\ last_prices'[m.product_id].last = ParseFloat(m.price).v
                               /\ \A p \in FeedProducts \ {m.product_id} :
                                      last_prices'[p] = last_prices[p]
                          ELSE last_prices' = last_prices
      ]_vars

\* Both symbols had an entry with bid 1, and a third ticker frame, for
\* BTC-USD with bid 2, replaced the entry of BTC-USD and left ETH-USD's.
C22_Witness ==
    /\ message_types["ticker"] = 3
    /\ last_prices["BTC-USD"].set /\ last_prices["BTC-USD"].bid = 2
    /\ last_prices["ETH-USD"].set /\ last_prices["ETH-USD"].bid = 1

====
